---- MODULE Spec2Model ----
(***************************************************************************)
(* TestAutomator: the locator-suggestion form (src/src/app/page.tsx) and   *)
(* the suggestLocator flow it calls (src/unnamed/part_000, the file        *)
(* src/ai/flows/suggest-locator.ts).                                       *)
(*                                                                         *)
(* Strings the code inspects (the url, the locator) are sequences of       *)
(* one-character strings, so that length, parsing and trimming are         *)
(* computed.  Strings the code only passes along (data URIs, the model's   *)
(* selector strings, messages) are TLA+ strings.  JSON values that the     *)
(* output schema inspects carry a type tag.                                *)
(***************************************************************************)
EXTENDS Integers, Sequences, FiniteSets, TLC

VARIABLES
    url,                \* form field "url" (react-hook-form value)
    currentLocator,     \* form field "currentLocator"
    errors,             \* formState.errors as the last submit left them
    result,             \* useState result
    isLoading,          \* useState isLoading
    screenshotPreview,  \* useState screenshotPreview
    screenshotDataUri,  \* useState screenshotDataUri
    reading,            \* FileReaders whose onloadend has not run yet
    toast,              \* title of the last toast shown
    pending,            \* invocations of suggestLocator not yet settled
    outboundCalls,      \* calls to the model made for the latest invocation
    modelReply          \* what the model answered to the latest direct invocation

vars == <<url, currentLocator, errors, result, isLoading, screenshotPreview,
          screenshotDataUri, reading, toast, pending, outboundCalls, modelReply>>

uiVars == <<url, currentLocator, errors, result, isLoading, screenshotPreview,
            screenshotDataUri, reading, toast>>

----------------------------------------------------------------------------
(* Bounds of the model. *)

\* longest locator typed into the form or passed to the flow
MaxLocLen == 2
\* longest suggestedLocators array the model returns
MaxReplyLocs == 2

SeqsUpTo(S, n) == UNION {[1..k -> S] : k \in 0..n}

----------------------------------------------------------------------------
(* Values. *)

NoValue == "<null>"
NoError == ""

Letters ==
    {"a","b","c","d","e","f","g","h","i","j","k","l","m",
     "n","o","p","q","r","s","t","u","v","w","x","y","z"}
Digits == {"0","1","2","3","4","5","6","7","8","9"}

\* defaultValues.url, "https://dev-dash.janitri.in/"
DefaultUrl ==
    <<"h","t","t","p","s",":","/","/","d","e","v","-","d","a","s","h",".",
      "j","a","n","i","t","r","i",".","i","n","/">>
\* defaultValues.currentLocator
DefaultLocator == <<>>

NotAUrl == <<"n","o","t","-","a","-","u","r","l">>

\* urls a user can type: the default, "not-a-url", "", "h:", "https://", "/h"
Urls ==
    {DefaultUrl, NotAUrl, <<>>, <<"h",":">>,
     <<"h","t","t","p","s",":","/","/">>, <<"/","h">>}

LocatorChars == {" ", "#"}
Locators == SeqsUpTo(LocatorChars, MaxLocLen)

DataUri == "data:image/png;base64,AAAA"
ImageFile == [type |-> <<"image", "png">>, dataUri |-> DataUri]
TextFile == [type |-> <<"text", "plain">>, dataUri |-> "data:text/plain;base64,AAAA"]
Files == {ImageFile, TextFile}

\* JSON values, tagged with their type
JNull == [t |-> "null"]
JStr(s) == [t |-> "string", v |-> s]
JNum(n) == [t |-> "number", v |-> n]
JArr(a) == [t |-> "array", v |-> a]
JObj(r) == [t |-> "object", v |-> r]

----------------------------------------------------------------------------
(* z.string().url(): the string is accepted when the URL constructor       *)
(* parses it without a base.  A scheme is a letter followed by letters,    *)
(* digits, "+", "-" or "." up to the first ":"; a special scheme other     *)
(* than file also needs a non-empty host after its slashes.                *)

SchemeChars == Letters \cup Digits \cup {"+", "-", "."}
SpecialSchemes ==
    {<<"h","t","t","p">>, <<"h","t","t","p","s">>, <<"f","t","p">>,
     <<"w","s">>, <<"w","s","s">>}
Slashes == {"/", "\\"}
HostEnders == {"/", "\\", "?", "#"}

\* index of the first ":" that only scheme characters precede, or 0
SchemeEnd(s) ==
    IF \E c \in 2..Len(s) :
          /\ s[c] = ":"
          /\ s[1] \in Letters
          /\ \A i \in 2..(c - 1) : s[i] \in SchemeChars
    THEN CHOOSE c \in 2..Len(s) :
          /\ s[c] = ":"
          /\ s[1] \in Letters
          /\ \A i \in 2..(c - 1) : s[i] \in SchemeChars
    ELSE 0

RECURSIVE SkipSlashes(_, _)
SkipSlashes(s, i) ==
    IF i <= Len(s) /\ s[i] \in Slashes THEN SkipSlashes(s, i + 1) ELSE i

RECURSIVE HostLen(_, _)
HostLen(s, i) ==
    IF i <= Len(s) /\ s[i] \notin HostEnders THEN 1 + HostLen(s, i + 1) ELSE 0

UrlParses(s) ==
    LET c == SchemeEnd(s) IN
    /\ c > 0
    /\ SubSeq(s, 1, c - 1) \in SpecialSchemes
          => HostLen(s, SkipSlashes(s, c + 1)) > 0

\* formSchema (page.tsx): the message of each field, NoError when it passes
formSchema(values) ==
    [url |-> IF UrlParses(values.url) THEN NoError ELSE "Please enter a valid URL.",
     currentLocator |->
        IF Len(values.currentLocator) >= 1 THEN NoError ELSE "Locator cannot be empty."]

NoErrors == [url |-> NoError, currentLocator |-> NoError]

\* SuggestLocatorInputSchema: url is a URL; currentLocator and
\* screenshotDataUri are any strings
SuggestLocatorInputSchema(input) == UrlParses(input.url)

\* SuggestLocatorOutputSchema: an object whose suggestedLocators is an array of
\* strings and whose reasoning is a string
SuggestLocatorOutputSchema(o) ==
    /\ o.t = "object"
    /\ "suggestedLocators" \in DOMAIN o.v
    /\ o.v.suggestedLocators.t = "array"
    /\ \A i \in 1..Len(o.v.suggestedLocators.v) : o.v.suggestedLocators.v[i].t = "string"
    /\ "reasoning" \in DOMAIN o.v
    /\ o.v.reasoning.t = "string"

----------------------------------------------------------------------------
(* The flow.  An invocation validates its input against inputSchema, makes *)
(* one call to the model (prompt(input)) and suspends; when the model      *)
(* answers or the call throws, the flow returns the output, which is       *)
(* validated against outputSchema.  An error carries the place it was      *)
(* raised at.                                                              *)

Pending == [status |-> "pending"]
Ok(v) == [status |-> "ok", value |-> v]
Failed(stage) == [status |-> "error", stage |-> stage]

\* what the model call comes back with: a thrown error, or {output}
NoReply == [kind |-> "none"]
TransportError == [kind |-> "error"]
Reply(o) == [kind |-> "reply", output |-> o]

SelectorStrings == {"a", "b"}
ReasoningStrings == {"", "r"}

ConformingReplies ==
    {Reply(JObj([suggestedLocators |-> JArr(ls), reasoning |-> JStr(r)])) :
        ls \in SeqsUpTo({JStr(x) : x \in SelectorStrings}, MaxReplyLocs),
        r \in ReasoningStrings}

NoOutput == Reply(JNull)
NoReasoning == Reply(JObj([suggestedLocators |-> JArr(<<JStr("a")>>)]))
LocatorsNotArray ==
    Reply(JObj([suggestedLocators |-> JStr("a"), reasoning |-> JStr("r")]))
LocatorNotString ==
    Reply(JObj([suggestedLocators |-> JArr(<<JStr("a"), JNum(1)>>),
                reasoning |-> JStr("r")]))

NonConformingReplies == {NoOutput, NoReasoning, LocatorsNotArray, LocatorNotString}

ModelOutcomes == {TransportError} \cup NonConformingReplies \cup ConformingReplies

\* the answers tried behind the form
FormModelOutcomes ==
    {TransportError, NoOutput, NoReasoning, LocatorsNotArray,
     Reply(JObj([suggestedLocators |-> JArr(<<>>), reasoning |-> JStr("")])),
     Reply(JObj([suggestedLocators |-> JArr(<<JStr("a"), JStr("b")>>),
                 reasoning |-> JStr("r")]))}

\* a flow that asks the model a second time
suggestLocator_CallsTwice(input) ==
    IF SuggestLocatorInputSchema(input)
    THEN [calls |-> 2, outcome |-> Pending]
    ELSE [calls |-> 0, outcome |-> Failed("inputSchema")]

\* suggestLocator(input) up to the await of prompt(input): the input check of
\* the flow, then the one call to the model
suggestLocator(input) ==
    IF SuggestLocatorInputSchema(input)
    THEN [calls |-> 1, outcome |-> Pending]
    ELSE [calls |-> 0, outcome |-> Failed("inputSchema")]

\* a flow declared without outputSchema: whatever the model sent is returned
suggestLocatorFlow_NoOutputCheck(mo) ==
    IF mo.kind = "error" THEN Failed("prompt") ELSE Ok(mo.output)

\* a flow that drops the model's first suggestion
suggestLocatorFlow_DropsFirst(mo) ==
    IF mo.kind = "error" THEN Failed("prompt")
    ELSE IF SuggestLocatorOutputSchema(mo.output)
         THEN Ok(JObj([mo.output.v EXCEPT
                  !.suggestedLocators =
                      JArr(IF Len(@.v) = 0 THEN @.v ELSE Tail(@.v))]))
    ELSE Failed("outputSchema")

\* the rest of suggestLocatorFlow: return output!, checked against outputSchema
suggestLocatorFlow(mo) ==
    IF mo.kind = "error" THEN Failed("prompt")
    ELSE IF SuggestLocatorOutputSchema(mo.output) THEN Ok(mo.output)
    ELSE Failed("outputSchema")

Invocation(input) ==
    [input |-> input, outcome |-> suggestLocator(input).outcome, stale |-> FALSE]

----------------------------------------------------------------------------
(* The page. *)

Init ==
    /\ url = DefaultUrl
    /\ currentLocator = DefaultLocator
    /\ errors = NoErrors
    /\ result = JNull
    /\ isLoading = FALSE
    /\ screenshotPreview = NoValue
    /\ screenshotDataUri = NoValue
    /\ reading = {}
    /\ toast = NoValue
    /\ pending = <<>>
    /\ outboundCalls = 0
    /\ modelReply = NoReply

\* typing into the "Page URL" input
EditUrl ==
    /\ \E u \in Urls : url' = u
    /\ UNCHANGED <<currentLocator, errors, result, isLoading, screenshotPreview,
                   screenshotDataUri, reading, toast, pending, outboundCalls, modelReply>>

\* typing into the "Current CSS Locator" input
EditLocator ==
    /\ \E l \in Locators : currentLocator' = l
    /\ UNCHANGED <<url, errors, result, isLoading, screenshotPreview,
                   screenshotDataUri, reading, toast, pending, outboundCalls, modelReply>>

\* file.type.startsWith("image/")
IsImage(file) == file.type[1] = "image"

\* handleFileChange / handleDrop -> processFile; the drop zone is rendered
\* only while there is no preview
processFile ==
    /\ screenshotPreview = NoValue
    /\ \E file \in Files :
          IF ~IsImage(file)
          THEN /\ toast' = "Invalid File Type"
               /\ UNCHANGED reading
          ELSE /\ reading' = reading \cup {file.dataUri}
               /\ UNCHANGED toast
    /\ UNCHANGED <<url, currentLocator, errors, result, isLoading, screenshotPreview,
                   screenshotDataUri, pending, outboundCalls, modelReply>>

\* reader.onloadend
onloadend ==
    /\ \E dataUri \in reading :
          /\ screenshotPreview' = dataUri
          /\ screenshotDataUri' = dataUri
          /\ reading' = reading \ {dataUri}
    /\ UNCHANGED <<url, currentLocator, errors, result, isLoading, toast, pending,
                   outboundCalls, modelReply>>

\* the "Change Screenshot" button over the preview
ChangeScreenshot ==
    /\ screenshotPreview # NoValue
    /\ screenshotPreview' = NoValue
    /\ screenshotDataUri' = NoValue
    /\ UNCHANGED <<url, currentLocator, errors, result, isLoading, reading, toast,
                   pending, outboundCalls, modelReply>>

\* a submit button that is never disabled
SubmitEnabled_Always == TRUE

\* the submit button is disabled while isLoading
SubmitEnabled == ~isLoading

\* form.handleSubmit(onSubmit): the resolver, then onSubmit up to its await
Submit ==
    /\ SubmitEnabled
    /\ LET values == [url |-> url, currentLocator |-> currentLocator]
           errs == formSchema(values)
       IN  IF errs # NoErrors
           THEN /\ errors' = errs
                /\ UNCHANGED <<result, isLoading, toast, pending, outboundCalls>>
           ELSE /\ errors' = NoErrors
                /\ IF screenshotDataUri = NoValue
                   THEN /\ toast' = "Screenshot Required"
                        /\ UNCHANGED <<result, isLoading, pending, outboundCalls>>
                   ELSE LET input == [url |-> values.url,
                                      currentLocator |-> values.currentLocator,
                                      screenshotDataUri |-> screenshotDataUri]
                        IN  /\ isLoading' = TRUE
                            /\ result' = JNull
                            /\ pending' = Append(pending, Invocation(input))
                            /\ outboundCalls' = suggestLocator(input).calls
                            /\ UNCHANGED toast
    /\ UNCHANGED <<url, currentLocator, screenshotPreview, screenshotDataUri, reading,
                   modelReply>>

Remove(s, i) == SubSeq(s, 1, i - 1) \o SubSeq(s, i + 1, Len(s))

\* onSubmit with setIsLoading(false) at the end of the try block, not in a finally
onSubmitSettled_NoFinally(outcome) ==
    /\ IF outcome.status = "ok"
       THEN /\ result' = outcome.value
            /\ isLoading' = FALSE
            /\ UNCHANGED toast
       ELSE /\ toast' = "An Error Occurred"
            /\ UNCHANGED <<result, isLoading>>

\* onSubmit after its await: setResult(aiResult), or the catch; then the finally
onSubmitSettled(outcome) ==
    /\ IF outcome.status = "ok"
       THEN /\ result' = outcome.value
            /\ UNCHANGED toast
       ELSE /\ toast' = "An Error Occurred"
            /\ UNCHANGED result
    /\ isLoading' = FALSE

\* the awaited suggestLocator settles, with the model's answer or an error
Settle ==
    /\ \E i \in 1..Len(pending) : \E mo \in FormModelOutcomes :
          /\ onSubmitSettled(IF pending[i].outcome = Pending
                             THEN suggestLocatorFlow(mo)
                             ELSE pending[i].outcome)
          /\ pending' = Remove(pending, i)
    /\ UNCHANGED <<url, currentLocator, errors, screenshotPreview, screenshotDataUri,
                   reading, outboundCalls, modelReply>>

\* the reset button; the invocations under way are now from before a reset
resetForm ==
    /\ url' = DefaultUrl
    /\ currentLocator' = DefaultLocator
    /\ errors' = NoErrors
    /\ screenshotPreview' = NoValue
    /\ screenshotDataUri' = NoValue
    /\ result' = JNull
    /\ pending' = [i \in 1..Len(pending) |-> [pending[i] EXCEPT !.stale = TRUE]]
    /\ UNCHANGED <<isLoading, reading, toast, outboundCalls, modelReply>>

Next ==
    \/ EditUrl
    \/ EditLocator
    \/ processFile
    \/ onloadend
    \/ ChangeScreenshot
    \/ Submit
    \/ Settle
    \/ resetForm

Spec == Init /\ [][Next]_vars

\* a dispatched call is answered or fails: the awaited promise settles
FairSpec == Spec /\ WF_vars(Settle)

----------------------------------------------------------------------------
(* The flow called directly, with any input. *)

DirectScreenshots == {DataUri, ""}
DirectInputs ==
    [url : Urls, currentLocator : Locators, screenshotDataUri : DirectScreenshots]

Invoke ==
    /\ \A i \in 1..Len(pending) : pending[i].outcome # Pending
    /\ \E input \in DirectInputs :
          /\ pending' = <<Invocation(input)>>
          /\ outboundCalls' = suggestLocator(input).calls
    /\ modelReply' = NoReply
    /\ UNCHANGED uiVars

ModelAnswers ==
    /\ Len(pending) = 1
    /\ pending[1].outcome = Pending
    /\ \E mo \in ModelOutcomes :
          /\ pending' = <<[pending[1] EXCEPT !.outcome = suggestLocatorFlow(mo)]>>
          /\ modelReply' = mo
    /\ UNCHANGED <<uiVars, outboundCalls>>

FlowNext == Invoke \/ ModelAnswers

FlowSpec == Init /\ [][FlowNext]_vars

----------------------------------------------------------------------------
(* Properties. *)

\* the locator rule of the specification: at least one non-whitespace character
Whitespace == {" ", "\t", "\n"}
LocatorRule(l) == \E i \in 1..Len(l) : l[i] \notin Whitespace
IsBlank(l) == ~LocatorRule(l)

\* a request the specification calls valid
ValidRequest(input) == UrlParses(input.url) /\ LocatorRule(input.currentLocator)

\* the reason the specification gives each failure
Reason(outcome) ==
    CASE outcome.stage = "inputSchema" -> "InvalidRequest"
      [] outcome.stage = "prompt" -> "ServiceUnavailable"
      [] outcome.stage = "outputSchema" -> "ContractViolation"

Settled(c) == c.outcome # Pending

\* C1: suggestLocator is only ever invoked from the form with a url that parses
\* as an absolute URL, a locator that passes the locator rule and a screenshot
\* attached.
C1_InvokedOnlyWhenValid ==
    \A i \in 1..Len(pending) :
        /\ UrlParses(pending[i].input.url)
        /\ LocatorRule(pending[i].input.currentLocator)
        /\ pending[i].input.screenshotDataUri # NoValue

\* C2: a locator made only of whitespace (the empty string included) gets the
\* locator message from the form's validator and is never dispatched.
C2_BlankLocatorRejected ==
    /\ IsBlank(currentLocator) =>
          formSchema([url |-> url, currentLocator |-> currentLocator]).currentLocator
             = "Locator cannot be empty."
    /\ \A i \in 1..Len(pending) : ~IsBlank(pending[i].input.currentLocator)

\* C3: isLoading is true whenever a request is outstanding and only then, and
\* every time it is true it is false again later, whatever the request's outcome.
C3_FlagFollowsRequest ==
    /\ [](isLoading <=> pending # <<>>)
    /\ [](isLoading => <>(~isLoading))

\* C3 witness: a request failed and the flag is cleared
C3_Witness ==
    /\ toast = "An Error Occurred"
    /\ ~isLoading
    /\ pending = <<>>

\* C4: at most one suggestLocator request is outstanding at any time.
C4_OneOutstanding == Len(pending) <= 1

\* C4 witness: a request is in flight, the form has been reset since and filled
\* in again with values that pass, a screenshot attached
C4_Witness ==
    /\ Len(pending) = 1
    /\ pending[1].stale
    /\ formSchema([url |-> url, currentLocator |-> currentLocator]) = NoErrors
    /\ screenshotDataUri # NoValue

\* C5: an invocation makes exactly one call to the model, and the number of calls
\* changes only in the step of a new submission: never when a request settles.
C5_OneCallNoRetry ==
    /\ [](outboundCalls <= 1 /\ (pending # <<>> => outboundCalls = 1))
    /\ [][outboundCalls' # outboundCalls =>
             /\ ~isLoading /\ isLoading'
             /\ Len(pending') = Len(pending) + 1]_vars

\* C5 witness: a request has failed, one call was made for it, none is outstanding
C5_Witness ==
    /\ toast = "An Error Occurred"
    /\ result = JNull
    /\ pending = <<>>
    /\ outboundCalls = 1

\* C6: the stored result is absent or has both suggestedLocators, an array of
\* strings, and reasoning, a string.
C6_NoPartialResult == result = JNull \/ SuggestLocatorOutputSchema(result)

\* C6 witness: a result is stored after an earlier failure
C6_Witness ==
    /\ result # JNull
    /\ Len(result.v.suggestedLocators.v) = 2
    /\ toast = "An Error Occurred"

\* C7: every failure of suggestLocator carries the reason of its kind: invalid
\* input InvalidRequest, a failed call ServiceUnavailable, a reply that does not
\* conform ContractViolation.
C7_FailureReasons ==
    \A i \in 1..Len(pending) :
        LET c == pending[i] IN
        Settled(c) =>
            /\ ~ValidRequest(c.input) =>
                  c.outcome.status = "error" /\ Reason(c.outcome) = "InvalidRequest"
            /\ (ValidRequest(c.input) /\ modelReply = TransportError) =>
                  c.outcome.status = "error" /\ Reason(c.outcome) = "ServiceUnavailable"
            /\ (ValidRequest(c.input) /\ modelReply \in NonConformingReplies) =>
                  c.outcome.status = "error" /\ Reason(c.outcome) = "ContractViolation"

\* C8: invoked with a url that is no absolute URL or a locator that is empty
\* after trimming, suggestLocator fails at its input and calls the model zero times.
C8_InvalidRequestNoCall ==
    \A i \in 1..Len(pending) :
        ~ValidRequest(pending[i].input) =>
            /\ pending[i].outcome = Failed("inputSchema")
            /\ outboundCalls = 0

\* C9: a request that was in flight when the form was reset leaves the result
\* absent when it settles.
C9_ResultDiscardedAfterReset ==
    [][(Len(pending) = 1 /\ pending[1].stale /\ pending' = <<>>) => result' = JNull]_vars

\* C10: for a valid request and a conforming reply, suggestLocator returns the
\* reply as it is.
C10_ReplyUnchanged ==
    \A i \in 1..Len(pending) :
        LET c == pending[i] IN
        (/\ Settled(c)
         /\ ValidRequest(c.input)
         /\ modelReply \in ConformingReplies) => c.outcome = Ok(modelReply.output)

\* C10 witness: a valid request answered with two different selectors, returned
C10_Witness ==
    /\ Len(pending) = 1
    /\ ValidRequest(pending[1].input)
    /\ pending[1].outcome.status = "ok"
    /\ pending[1].outcome.value.v.suggestedLocators.v = <<JStr("b"), JStr("a")>>
    /\ modelReply \in ConformingReplies

====
